---- MODULE Spec2Model ----
(***************************************************************************)
(* Model of src/main.py (usa-sector-analysis): the per-instrument fetch    *)
(* tasks run on a ThreadPoolExecutor, the join loop of main(), the         *)
(* Aggregator process_data_for_chart, the classification in                *)
(* generate_html_content and the indicator engine                          *)
(* calculate_technical_indicators / get_sector_data.                       *)
(*                                                                         *)
(* Numbers are fixed-point integers: prices and normalized index values in *)
(* hundredths (2 decimals), RSI in tenths (1 decimal), %B in hundredths.   *)
(* NaN is the empty sequence <<>>, a defined cell v is <<v>>.              *)
(***************************************************************************)
EXTENDS Integers, Sequences, FiniteSets, TLC

VARIABLES
    phase,        \* which entry point is being exercised: "main", "agg", "ind"
    pc,           \* position of main() / of the exercised function
    nsub,         \* main: number of futures submitted so far
    joinIdx,      \* main: index of the future whose result() is awaited next
    taskState,    \* per submitted task: "queued" | "running" | "done"
    taskExc,      \* per task: TRUE iff the future holds an exception
    taskResult,   \* per task: the list returned by get_sector_data
    taskOutcome,  \* per task: what the provider did ("none" until fetched)
    all_rows,     \* main: the flat collection / the Aggregator's input
    calls,        \* functions main() has invoked after the join, in order
    df,           \* Aggregator: merged, deduplicated dataset
    latest_df,    \* Aggregator: snapshot panel
    normalized_df,\* Aggregator: normalized table [labels, columns, cells]
    chart_datasets,\* Aggregator: serialised series (label, data)
    overheated_top3,\* Aggregator: overheated shortlist
    html_content, \* renderer: the report body (failure notice or the cards)
    sync_status,  \* publisher: what sync_remote_node did with the body
    hist,         \* indicator engine: the instrument's bars
    ind,          \* indicator engine: indicator columns per bar
    results       \* indicator engine: rows returned by get_sector_data

vars == <<phase, pc, nsub, joinIdx, taskState, taskExc, taskResult, taskOutcome,
          all_rows, calls, df, latest_df, normalized_df, chart_datasets,
          overheated_top3, html_content, sync_status, hist, ind, results>>

mainVars == <<nsub, joinIdx, taskState, taskExc, taskResult, taskOutcome>>
aggVars  == <<df, latest_df, normalized_df, chart_datasets, overheated_top3>>
indVars  == <<hist, ind, results>>

NaN == <<>>

(***************************************************************************)
(* Configuration                                                           *)
(***************************************************************************)
\* SECTOR_ETFS, in declaration order (dict order is insertion order).
SECTOR_ETFS ==
    << "XLC", "XLY", "XLP", "XLE", "XLF", "XLV", "XLI", "XLB", "XLRE", "XLK", "XLU" >>

\* ThreadPoolExecutor(max_workers=5)
MaxWorkers == 5

\* Number of leading entries of SECTOR_ETFS scheduled in the modelled run.
NumInstruments == 6

\* Position of a code in a sequence of codes, 0 when absent.
IndexOf(seq, x) ==
    IF \E i \in 1..Len(seq) : seq[i] = x
    THEN CHOOSE i \in 1..Len(seq) : seq[i] = x
    ELSE 0

\* The display name of a code (the dict value).  The dict's values are pairwise
\* distinct, so the model writes a display name as the code it belongs to.
NameOf(code) == code

\* Python/pandas string order of the codes (used by sort_values on the code
\* column); ZZA and ZZB are codes that are not keys of SECTOR_ETFS, which only
\* a direct caller of process_data_for_chart can pass.
CodeOrder ==
    << "XLB", "XLC", "XLE", "XLF", "XLI", "XLK", "XLP", "XLRE", "XLU", "XLV", "XLY",
       "ZZA", "ZZB" >>

CodeRank(code) == IndexOf(CodeOrder, code)

\* String order of the display names (pivot sorts its columns): the eleven
\* sector names sorted by code point, written by their codes; the names of
\* unknown codes are taken to sort after them.
NameOrder ==
    << "XLE", "XLK", "XLV", "XLY", "XLRE", "XLU", "XLP", "XLB", "XLI", "XLC", "XLF",
       "ZZA", "ZZB" >>

NameRank(name) == IndexOf(NameOrder, name)

(***************************************************************************)
(* Sequence helpers standing for pandas / Python list primitives           *)
(***************************************************************************)
Range(f) == { f[i] : i \in DOMAIN f }

\* The elements of seq at the positions in S, in their order in seq.
SelectIdx(seq, S) ==
    [ p \in 1..Cardinality(S) |->
        seq[CHOOSE i \in S : Cardinality({ j \in S : j <= i }) = p] ]

\* seq rearranged by the index sequence perm.
Take(seq, perm) == [ p \in 1..Len(perm) |-> seq[perm[p]] ]

\* A stable argsort (Python list.sort, pandas multi-column lexsort).
StableArgsort(keys) ==
    LET n == Len(keys)
        pos(i) == 1 + Cardinality({ j \in 1..n :
                        keys[j] < keys[i] \/ (keys[j] = keys[i] /\ j < i) })
    IN  [ p \in 1..n |-> CHOOSE i \in 1..n : pos(i) = p ]

\* The argsorts a sort that is not stable may return (pandas sort_values on one
\* column, kind='quicksort'): every arrangement of the positions in S with
\* non-decreasing keys.
RECURSIVE ArrangeSorted(_, _)
ArrangeSorted(S, keys) ==
    IF S = {} THEN { <<>> }
    ELSE UNION { { <<i>> \o rest : rest \in ArrangeSorted(S \ {i}, keys) }
                 : i \in { k \in S : \A j \in S : keys[k] <= keys[j] } }

QuicksortArgsorts(keys) == ArrangeSorted(1..Len(keys), keys)

\* numpy round (half to even) of a / b, for a >= 0 and b > 0.
RoundDiv(a, b) ==
    LET q == a \div b
        r == a % b
    IN  IF 2 * r < b THEN q
        ELSE IF 2 * r > b THEN q + 1
        ELSE IF q % 2 = 0 THEN q ELSE q + 1

(***************************************************************************)
(* Aggregator: process_data_for_chart                                      *)
(***************************************************************************)
\* df.sort_values(['日付', 'コード']): a stable lexicographic sort.
SortByDateCode(rows) ==
    Take(rows, StableArgsort([ i \in 1..Len(rows) |->
                                rows[i].date * 100 + CodeRank(rows[i].code) ]))

\* Mutant of DropDuplicates: keep='first'.
DropDuplicatesKeepFirst(rows) ==
    SelectIdx(rows, { i \in 1..Len(rows) :
        ~ \E j \in 1..Len(rows) :
            j < i /\ rows[j].date = rows[i].date /\ rows[j].code = rows[i].code })

\* df.drop_duplicates(subset=['日付', 'コード'], keep='last')
DropDuplicates(rows) ==
    SelectIdx(rows, { i \in 1..Len(rows) :
        ~ \E j \in 1..Len(rows) :
            j > i /\ rows[j].date = rows[i].date /\ rows[j].code = rows[i].code })

\* The merge step: sort, then deduplicate.
MergeStep(rows) == DropDuplicates(SortByDateCode(rows))

\* groupby('コード').tail(1): the last row of each code, in frame order.
GroupbyTail1(rows) ==
    SelectIdx(rows, { i \in 1..Len(rows) :
        ~ \E j \in 1..Len(rows) : j > i /\ rows[j].code = rows[i].code })

\* The sort_key lambda: position in SECTOR_ETFS (0-based), 99 when unknown.
SortKey(code) ==
    IF IndexOf(SECTOR_ETFS, code) > 0 THEN IndexOf(SECTOR_ETFS, code) - 1 ELSE 99

\* Every value latest_df can take.  Both sort_values calls are single-column
\* sorts with the default kind, which is not stable.  The rows that
\* groupby.tail(1) keeps do not depend on how the first sort orders equal
\* dates (a code's dates are distinct after the merge step), and the second
\* sort may return every arrangement of them with non-decreasing sort_key, so
\* the first sort is written with one of its tie orders.
LatestDfOutcomes(d) ==
    LET byDate == Take(d, StableArgsort([ i \in 1..Len(d) |-> d[i].date ]))
        tail   == GroupbyTail1(byDate)
    IN  { Take(tail, p2) :
            p2 \in QuicksortArgsorts([ i \in 1..Len(tail) |-> SortKey(tail[i].code) ]) }

\* df.pivot(index='日付', columns='セクター名', values='現在値'): the sorted
\* dates, the sorted names, and per name the column of cells (NaN where the
\* instrument has no row at the date).
PivotIndex(d) ==
    LET dates == { d[i].date : i \in 1..Len(d) }
    IN  [ p \in 1..Cardinality(dates) |->
            CHOOSE x \in dates : Cardinality({ y \in dates : y <= x }) = p ]

PivotColumns(d) ==
    LET names == { d[i].name : i \in 1..Len(d) }
    IN  [ p \in 1..Cardinality(names) |->
            CHOOSE x \in names :
                Cardinality({ y \in names : NameRank(y) <= NameRank(x) }) = p ]

PivotCell(d, date, name) ==
    IF \E i \in 1..Len(d) : d[i].date = date /\ d[i].name = name
    THEN << d[CHOOSE i \in 1..Len(d) : d[i].date = date /\ d[i].name = name].close >>
    ELSE NaN

\* One cell of pivot_df.div(base_prices).mul(100).round(2): NaN when the cell
\* or the column's base price is NaN.
NormalizeCell(cell, base) ==
    IF cell = NaN \/ base = NaN THEN NaN
    ELSE << RoundDiv(cell[1] * 10000, base[1]) >>

\* Mutant of BasePrices: the last row of the pivot instead of the first.
BasePricesLastRow(d, name) ==
    PivotCell(d, PivotIndex(d)[Len(PivotIndex(d))], name)

\* base_prices = pivot_df.iloc[0]: the pivot's row of the earliest date.
BasePrices(d, name) == PivotCell(d, PivotIndex(d)[1], name)

\* normalized_df = pivot_df.div(base_prices).mul(100).round(2)
NormalizedDf(d) ==
    LET idx  == PivotIndex(d)
        cols == PivotColumns(d)
    IN  [ index   |-> idx,
          columns |-> cols,
          data    |-> [ c \in Range(cols) |->
                          [ k \in 1..Len(idx) |->
                              NormalizeCell(PivotCell(d, idx[k], c),
                                            BasePrices(d, c)) ] ] ]

\* Series.ffill(): a NaN cell takes the last non-NaN cell before it, if any.
Ffill(col) ==
    [ k \in 1..Len(col) |->
        IF \E j \in 1..k : col[j] # NaN
        THEN col[CHOOSE j \in 1..k : col[j] # NaN /\ \A m \in (j+1)..k : col[m] = NaN]
        ELSE NaN ]

\* chart_datasets: one dataset per column of normalized_df.
ChartDatasets(norm) ==
    [ i \in 1..Len(norm.columns) |->
        [ label |-> norm.columns[i], data |-> Ffill(norm.data[norm.columns[i]]) ] ]

\* The test of the overheated ranking loop: rsi >= 70 or bb > 1.0.
RankingTest(rsi, bb) == rsi >= 700 \/ bb > 100

\* The candidates appended by the ranking loop, in latest_df order.
OverheatedSectors(latest, norm) ==
    LET hot == { i \in 1..Len(latest) : RankingTest(latest[i].rsi, latest[i].bb) }
        cand == SelectIdx(latest, hot)
    IN  [ i \in 1..Len(cand) |->
            [ sector    |-> cand[i].name,
              index_val |-> IF cand[i].name \in Range(norm.columns)
                            THEN norm.data[cand[i].name][Len(norm.index)]
                            ELSE <<0>>,
              rsi       |-> cand[i].rsi ] ]

\* Mutant of SortByRsiDesc: an ascending sort read backwards, which reverses
\* the order of equal keys.
SortByRsiDescTiesReversed(entries) ==
    LET asc == Take(entries, StableArgsort([ i \in 1..Len(entries) |-> entries[i].rsi ]))
    IN  [ i \in 1..Len(asc) |-> asc[Len(asc) + 1 - i] ]

\* overheated_sectors.sort(key=rsi, reverse=True): list.sort is stable, and
\* reverse=True keeps the original order of equal keys.
SortByRsiDesc(entries) ==
    Take(entries, StableArgsort([ i \in 1..Len(entries) |-> 0 - entries[i].rsi ]))

\* overheated_sectors[:3]
TopN == 3

Head3(entries) ==
    SubSeq(entries, 1, IF Len(entries) < TopN THEN Len(entries) ELSE TopN)

OverheatedTop3(latest, norm) ==
    IF latest # <<>> /\ norm.index # <<>> /\ norm.columns # <<>>
    THEN Head3(SortByRsiDesc(OverheatedSectors(latest, norm)))
    ELSE <<>>

EmptyNorm == [ index |-> <<>>, columns |-> <<>>, data |-> <<>> ]

(***************************************************************************)
(* Renderer: the classification in generate_html_content                   *)
(***************************************************************************)
\* Mutant of Classify: the oversold test made first.
ClassifyOversoldFirst(rsi, bb) ==
    IF rsi <= 300 \/ bb < 0 THEN "OVERSOLD"
    ELSE IF rsi >= 700 \/ bb > 100 THEN "OVERHEATED"
    ELSE "NORMAL"

\* status_text of one card: 過熱 (OVERHEATED) is tested first, then 割安
\* (OVERSOLD), else 通常 (NORMAL).
Classify(rsi, bb) ==
    IF rsi >= 700 \/ bb > 100 THEN "OVERHEATED"
    ELSE IF rsi <= 300 \/ bb < 0 THEN "OVERSOLD"
    ELSE "NORMAL"

\* generate_html_content: the failure notice when latest_df is None or empty,
\* else one card per row of latest_df, in its order.
GenerateHtmlContent(latest) ==
    IF latest = <<>>
    THEN [ failed |-> TRUE, cards |-> <<>> ]
    ELSE [ failed |-> FALSE,
           cards  |-> [ i \in 1..Len(latest) |->
                         [ sector |-> latest[i].name,
                           status |-> Classify(latest[i].rsi, latest[i].bb) ] ] ]

NoHtml == [ failed |-> FALSE, cards |-> <<>> ]

(***************************************************************************)
(* Indicator engine: calculate_technical_indicators                        *)
(*                                                                         *)
(* A bar is [date, Close, Volume]; Close in hundredths.  A column cell is  *)
(* NaN or <<v>>, v at the precision make_row rounds the column to.         *)
(***************************************************************************)
WinShort  == 5      \* rolling(window=5) of Close
WinMid    == 25     \* rolling(window=25)
WinLong   == 75     \* rolling(window=75)
RsiWindow == 14     \* rolling(window=14) of gain and loss
BbWindow  == 20     \* rolling(window=20) mean and std
VolWindow == 5      \* rolling(window=5) of Volume
TailLimit == 300    \* .tail(300)

\* Round half to even of a / b for b > 0 and any sign of a.
RoundDivSigned(a, b) == IF a >= 0 THEN RoundDiv(a, b) ELSE 0 - RoundDiv(0 - a, b)

RECURSIVE SumClose(_, _, _)
SumClose(bars, lo, hi) ==
    IF lo > hi THEN 0 ELSE bars[hi].Close + SumClose(bars, lo, hi - 1)

RECURSIVE SumVolume(_, _, _)
SumVolume(bars, lo, hi) ==
    IF lo > hi THEN 0 ELSE bars[hi].Volume + SumVolume(bars, lo, hi - 1)

\* ((Close - ma) / ma) * 100 with ma the rolling mean over w bars: NaN until
\* w bars exist, and NaN (0/0) when the window sums to zero.
Deviation(bars, i, w) ==
    IF i < w THEN NaN
    ELSE LET sum == SumClose(bars, i - w + 1, i)
         IN  IF sum = 0 THEN NaN
             ELSE << RoundDivSigned((w * bars[i].Close - sum) * 10000, sum) >>

\* delta.where(delta > 0, 0): the gain of bar j; the NaN delta of the first
\* bar fails the test and becomes 0.
Gain(bars, j) ==
    IF j >= 2 /\ bars[j].Close > bars[j-1].Close
    THEN bars[j].Close - bars[j-1].Close ELSE 0

\* -delta.where(delta < 0, 0)
Loss(bars, j) ==
    IF j >= 2 /\ bars[j].Close < bars[j-1].Close
    THEN bars[j-1].Close - bars[j].Close ELSE 0

RECURSIVE SumGain(_, _, _)
SumGain(bars, lo, hi) ==
    IF lo > hi THEN 0 ELSE Gain(bars, hi) + SumGain(bars, lo, hi - 1)

RECURSIVE SumLoss(_, _, _)
SumLoss(bars, lo, hi) ==
    IF lo > hi THEN 0 ELSE Loss(bars, hi) + SumLoss(bars, lo, hi - 1)

\* rsi = 100 - 100 / (1 + gain / loss) = 100 gain / (gain + loss): NaN until
\* 14 bars exist and when gain = loss = 0 (0/0); 100 when only loss = 0 (the
\* division gives inf).
Rsi(bars, i) ==
    IF i < RsiWindow THEN NaN
    ELSE LET g == SumGain(bars, i - RsiWindow + 1, i)
             l == SumLoss(bars, i - RsiWindow + 1, i)
         IN  IF g = 0 /\ l = 0 THEN NaN
             ELSE << RoundDiv(1000 * g, g + l) >>

\* The integer nearest to sqrt(n / d), for n >= 0 and d > 0.
RECURSIVE SqrtRound(_, _, _)
SqrtRound(n, d, k) ==
    IF 4 * n < (2 * k + 1) * (2 * k + 1) * d THEN k ELSE SqrtRound(n, d, k + 1)

RECURSIVE SumSqDev(_, _, _, _)
SumSqDev(bars, lo, hi, ref) ==
    IF lo > hi THEN 0
    ELSE (bars[hi].Close - ref) * (bars[hi].Close - ref)
            + SumSqDev(bars, lo, hi - 1, ref)

\* bb_pct_b = where(bb_range == 0, 0, (Close - bb_low) / bb_range) with
\* bb_range = 4 std (sample std, ddof = 1): 0.5 + (Close - mean) / (4 std).
\* With s the window's sum of closes taken relative to its first close and
\* v = 20 sum(c^2) - s^2, (Close - mean) / (4 std) is
\* sign(20 c - s) sqrt((20 c - s)^2 * 19 / (320 v)); in hundredths that is
\* sqrt((20 c - s)^2 * 625 * 19 / (20 v)).
BbPctB(bars, i) ==
    IF i < BbWindow THEN NaN
    ELSE LET lo  == i - BbWindow + 1
             ref == bars[lo].Close
             s   == SumClose(bars, lo, i) - BbWindow * ref
             v   == BbWindow * SumSqDev(bars, lo, i, ref) - s * s
             t   == BbWindow * (bars[i].Close - ref) - s
         IN  IF v = 0 THEN << 0 >>
             ELSE LET m == SqrtRound(t * t * 625 * (BbWindow - 1), BbWindow * v, 0)
                  IN  << IF t >= 0 THEN 50 + m ELSE 50 - m >>

\* vol_ratio = where(vol_ma5 == 0, 0, Volume / vol_ma5)
VolRatio(bars, i) ==
    IF i < VolWindow THEN NaN
    ELSE LET sum == SumVolume(bars, i - VolWindow + 1, i)
         IN  IF sum = 0 THEN << 0 >>
             ELSE << RoundDiv(VolWindow * bars[i].Volume * 100, sum) >>

\* change_pct = Close.pct_change() * 100: NaN at the first bar (and for 0/0).
ChangePct(bars, i) ==
    IF i < 2 \/ bars[i-1].Close = 0 THEN NaN
    ELSE << RoundDivSigned((bars[i].Close - bars[i-1].Close) * 10000,
                           bars[i-1].Close) >>

\* calculate_technical_indicators(df): the frame with its indicator columns.
CalculateTechnicalIndicators(bars) ==
    [ i \in 1..Len(bars) |->
        [ date       |-> bars[i].date,
          Close      |-> bars[i].Close,
          Volume     |-> bars[i].Volume,
          diff_short |-> Deviation(bars, i, WinShort),
          diff_mid   |-> Deviation(bars, i, WinMid),
          diff_long  |-> Deviation(bars, i, WinLong),
          rsi        |-> Rsi(bars, i),
          bb_pct_b   |-> BbPctB(bars, i),
          vol_ratio  |-> VolRatio(bars, i),
          change_pct |-> ChangePct(bars, i) ] ]

\* A row dropna() keeps: no column is NaN.
NoNaN(r) ==
    /\ r.diff_short # NaN /\ r.diff_mid # NaN /\ r.diff_long # NaN
    /\ r.rsi # NaN /\ r.bb_pct_b # NaN /\ r.vol_ratio # NaN
    /\ r.change_pct # NaN

\* df.dropna(): the rows lo..hi without NaN, in order.
RECURSIVE DropnaRange(_, _, _)
DropnaRange(frame, lo, hi) ==
    IF lo > hi THEN <<>>
    ELSE IF lo = hi THEN (IF NoNaN(frame[lo]) THEN << frame[lo] >> ELSE <<>>)
    ELSE LET mid == (lo + hi) \div 2
         IN  DropnaRange(frame, lo, mid) \o DropnaRange(frame, mid + 1, hi)

Dropna(frame) == DropnaRange(frame, 1, Len(frame))

\* Mutant of TailRows: .head(300), the oldest rows instead of the most recent.
HeadRows(frame) ==
    SubSeq(frame, 1, IF Len(frame) < TailLimit THEN Len(frame) ELSE TailLimit)

\* .tail(300)
TailRows(frame) ==
    IF Len(frame) <= TailLimit THEN frame
    ELSE SubSeq(frame, Len(frame) - TailLimit + 1, Len(frame))

\* make_row for every row left, in frame order.
MakeRows(code, frame) ==
    [ k \in 1..Len(frame) |->
        [ code       |-> code,
          name       |-> NameOf(code),
          date       |-> frame[k].date,
          close      |-> frame[k].Close,
          change     |-> frame[k].change_pct[1],
          diff_short |-> frame[k].diff_short[1],
          diff_mid   |-> frame[k].diff_mid[1],
          diff_long  |-> frame[k].diff_long[1],
          rsi        |-> frame[k].rsi[1],
          bb         |-> frame[k].bb_pct_b[1],
          vol_ratio  |-> frame[k].vol_ratio[1] ] ]

(***************************************************************************)
(* get_sector_data as seen by the coordinator                              *)
(***************************************************************************)
\* make_row: the fields of a row the Aggregator and the renderer read.
MakeRow(code, date, close, rsi, bb) ==
    [ code |-> code, name |-> NameOf(code), date |-> date,
      close |-> close, rsi |-> rsi, bb |-> bb ]

\* What the provider does for one instrument: history() raises, returns an
\* empty frame, or returns bars.
FetchOutcomes == { "error", "empty", "ok" }

\* The rows computed from an instrument's bars in the modelled run: one row
\* per date 1..n, the instrument's position deciding the values.
SeriesOf(i, n) ==
    [ k \in 1..n |->
        MakeRow(SECTOR_ETFS[i], k, 1000 * i + 100 * k, 100 * i + 200, 15 * i) ]

\* Mutant of OnException: no handler, the exception leaves the task.
OnExceptionReraise == [ exc |-> TRUE, rows |-> <<>> ]

\* except Exception: print the error, return [] (the future holds no exception).
OnException == [ exc |-> FALSE, rows |-> <<>> ]

\* if hist.empty: return []
OnEmptyHistory == [ exc |-> FALSE, rows |-> <<>> ]

\* get_sector_data(code, name) for the i-th instrument, n rows surviving dropna.
GetSectorData(i, outcome, n) ==
    IF outcome = "error" THEN OnException
    ELSE IF outcome = "empty" THEN OnEmptyHistory
    ELSE [ exc |-> FALSE, rows |-> SeriesOf(i, n) ]

(***************************************************************************)
(* main(): ThreadPoolExecutor, join loop, pipeline                         *)
(***************************************************************************)
Tasks == 1..NumInstruments

\* Rows an instrument's task may return in the modelled run (0: every bar was
\* dropped, e.g. fewer than 75 bars).
SeriesLengths == { 0, 1 }

Running == { i \in Tasks : taskState[i] = "running" }

\* A worker thread takes the oldest queued work item when fewer than
\* max_workers items are being run.
CanStart(i) ==
    /\ i <= nsub
    /\ taskState[i] = "queued"
    /\ \A j \in 1..(i-1) : taskState[j] # "queued"
    /\ Cardinality(Running) < MaxWorkers

\* Mutant of ResultReady: the result is read without waiting for the task.
ResultReadyNoWait(i) == i \in Tasks

\* future.result() returns (or raises) once the task has finished.
ResultReady(i) == taskState[i] = "done"

\* Mutant of NoDataRetrieved: the early return is missing.
NoDataRetrievedNever(rows) == rows # rows

\* if not all_rows: print("No data retrieved."); return
NoDataRetrieved(rows) == rows = <<>>

Init ==
    /\ phase = "main"
    /\ pc = "submit"
    /\ nsub = 0
    /\ joinIdx = 1
    /\ taskState = [ i \in Tasks |-> "queued" ]
    /\ taskExc = [ i \in Tasks |-> FALSE ]
    /\ taskResult = [ i \in Tasks |-> <<>> ]
    /\ taskOutcome = [ i \in Tasks |-> "none" ]
    /\ all_rows = <<>>
    /\ calls = <<>>
    /\ df = <<>>
    /\ latest_df = <<>>
    /\ normalized_df = EmptyNorm
    /\ chart_datasets = <<>>
    /\ overheated_top3 = <<>>
    /\ html_content = NoHtml
    /\ sync_status = "none"
    /\ hist = <<>>
    /\ ind = <<>>
    /\ results = <<>>

\* executor.submit(get_sector_data, code, name), one instrument after another.
Submit ==
    /\ phase = "main" /\ pc = "submit"
    /\ nsub' = nsub + 1
    /\ pc' = IF nsub + 1 = NumInstruments THEN "join" ELSE "submit"
    /\ UNCHANGED <<phase, joinIdx, taskState, taskExc, taskResult, taskOutcome,
                   all_rows, calls, html_content, sync_status>>
    /\ UNCHANGED aggVars /\ UNCHANGED indVars

\* A worker starts running a task.
TaskStart(i) ==
    /\ phase = "main"
    /\ CanStart(i)
    /\ taskState' = [taskState EXCEPT ![i] = "running"]
    /\ UNCHANGED <<phase, pc, nsub, joinIdx, taskExc, taskResult, taskOutcome,
                   all_rows, calls, html_content, sync_status>>
    /\ UNCHANGED aggVars /\ UNCHANGED indVars

\* A running task returns from get_sector_data (or raises out of it).
TaskFinish(i) ==
    /\ phase = "main"
    /\ taskState[i] = "running"
    /\ \E outcome \in FetchOutcomes, n \in SeriesLengths :
         /\ outcome # "ok" => n = 0
         /\ LET r == GetSectorData(i, outcome, n)
            IN  /\ taskExc' = [taskExc EXCEPT ![i] = r.exc]
                /\ taskResult' = [taskResult EXCEPT ![i] = r.rows]
         /\ taskOutcome' = [taskOutcome EXCEPT ![i] = outcome]
    /\ taskState' = [taskState EXCEPT ![i] = "done"]
    /\ UNCHANGED <<phase, pc, nsub, joinIdx, all_rows, calls, html_content,
                   sync_status>>
    /\ UNCHANGED aggVars /\ UNCHANGED indVars

\* for future in futures: res = future.result(); if res: all_rows.extend(res)
\* After the last future the with-block exits (shutdown(wait=True)).
Join ==
    /\ phase = "main" /\ pc = "join"
    /\ ResultReady(joinIdx)
    /\ IF taskExc[joinIdx]
       THEN /\ pc' = "crashed"
            /\ UNCHANGED <<joinIdx, all_rows>>
       ELSE /\ all_rows' = IF taskResult[joinIdx] # <<>>
                           THEN all_rows \o taskResult[joinIdx]
                           ELSE all_rows
            /\ joinIdx' = joinIdx + 1
            /\ pc' = IF joinIdx = NumInstruments THEN "check" ELSE "join"
    /\ UNCHANGED <<phase, nsub, taskState, taskExc, taskResult, taskOutcome,
                   calls, html_content, sync_status>>
    /\ UNCHANGED aggVars /\ UNCHANGED indVars

\* The emptiness test after the with-block.
Check ==
    /\ phase = "main" /\ pc = "check"
    /\ \A i \in Tasks : taskState[i] = "done"
    /\ pc' = IF NoDataRetrieved(all_rows) THEN "done" ELSE "process"
    /\ UNCHANGED <<phase, all_rows, calls, html_content, sync_status>>
    /\ UNCHANGED mainVars /\ UNCHANGED aggVars /\ UNCHANGED indVars

\* process_data_for_chart(all_rows): (None, None, None, None) for an empty
\* list, else the merged dataset and everything derived from it.
Process ==
    /\ pc = "process"
    /\ calls' = Append(calls, "process_data_for_chart")
    /\ IF all_rows = <<>>
       THEN /\ df' = <<>>
            /\ latest_df' = <<>>
            /\ normalized_df' = EmptyNorm
            /\ chart_datasets' = <<>>
            /\ overheated_top3' = <<>>
       ELSE /\ df' = MergeStep(all_rows)
            /\ latest_df' \in LatestDfOutcomes(df')
            /\ normalized_df' = NormalizedDf(df')
            /\ overheated_top3' = OverheatedTop3(latest_df', normalized_df')
            /\ chart_datasets' = ChartDatasets(normalized_df')
    /\ pc' = "render"
    /\ UNCHANGED <<phase, all_rows, html_content, sync_status>>
    /\ UNCHANGED mainVars /\ UNCHANGED indVars

\* generate_html_content(latest, labels, datasets, top3)
Render ==
    /\ pc = "render"
    /\ calls' = Append(calls, "generate_html_content")
    /\ html_content' = GenerateHtmlContent(latest_df)
    /\ pc' = "sync"
    /\ UNCHANGED <<phase, all_rows, sync_status>>
    /\ UNCHANGED mainVars /\ UNCHANGED aggVars /\ UNCHANGED indVars

\* sync_remote_node(html_content): skipped without configuration, else a POST
\* whose failure (status or transport) is printed and absorbed.
SyncResults == { "skipped", "ok", "failed", "connection_error" }

Sync ==
    /\ phase = "main" /\ pc = "sync"
    /\ calls' = Append(calls, "sync_remote_node")
    /\ sync_status' \in SyncResults
    /\ pc' = "done"
    /\ UNCHANGED <<phase, all_rows, html_content>>
    /\ UNCHANGED mainVars /\ UNCHANGED aggVars /\ UNCHANGED indVars

Next ==
    \/ Submit
    \/ \E i \in Tasks : TaskStart(i)
    \/ \E i \in Tasks : TaskFinish(i)
    \/ Join
    \/ Check
    \/ Process
    \/ Render
    \/ Sync

Spec == Init /\ [][Next]_vars

(***************************************************************************)
(* Properties of the coordinator and of main() (under Spec)                *)
(***************************************************************************)
PastJoin == phase = "main" /\ pc \in { "check", "process", "render", "sync", "done" }

\* The results of the tasks 1..n, non-empty ones appended in submission order.
RECURSIVE Flatten(_)
Flatten(n) == IF n = 0 THEN <<>> ELSE Flatten(n - 1) \o taskResult[n]

RowsOfCode(rows, code) == { i \in 1..Len(rows) : rows[i].code = code }

\* C1: a failing task (exception or empty history) contributes nothing and
\* stores no exception; main never crashes; once the join is over every task
\* has completed and the flat collection holds all rows of every instrument
\* that did not fail, which is what the Aggregator is given.
C1_FailuresAbsorbed ==
    /\ phase = "main" => pc # "crashed"
    /\ phase = "main" => \A i \in Tasks : ~ taskExc[i]
    /\ PastJoin =>
         /\ \A i \in Tasks : taskState[i] = "done"
         /\ \A i \in Tasks :
              /\ taskOutcome[i] \in { "error", "empty" } =>
                     RowsOfCode(all_rows, SECTOR_ETFS[i]) = {}
              /\ taskOutcome[i] = "ok" =>
                     \A k \in 1..Len(taskResult[i]) :
                         \E m \in 1..Len(all_rows) : all_rows[m] = taskResult[i][k]
         /\ all_rows = Flatten(NumInstruments)
    /\ (phase = "main" /\ pc \in { "render", "sync", "done" } /\ calls # <<>>) =>
         \A m \in 1..Len(all_rows) : \E k \in 1..Len(df) : df[k] = all_rows[m]

\* C1 witness: a finished run in which one task raised, one got an empty
\* history and a later one delivered rows that reached the Aggregator.
C1_Witness ==
    /\ phase = "main" /\ pc = "done"
    /\ taskOutcome[1] = "error"
    /\ taskOutcome[2] = "empty"
    /\ taskOutcome[3] = "ok" /\ taskResult[3] # <<>>
    /\ \E k \in 1..Len(df) : df[k] = taskResult[3][1]
    /\ calls = << "process_data_for_chart", "generate_html_content", "sync_remote_node" >>

\* C2: with an empty flat collection after the join the run ends without
\* aggregation, rendering or publishing; and those are only ever invoked with
\* a non-empty collection.
C2_EmptyHaltsCleanly ==
    /\ (phase = "main" /\ pc \in { "process", "render", "sync", "done" }
            /\ all_rows = <<>>)
         => (pc = "done" /\ calls = <<>> /\ html_content = NoHtml
                /\ sync_status = "none")
    /\ (phase = "main" /\ calls # <<>>) => all_rows # <<>>
    /\ (phase = "main" /\ (html_content # NoHtml \/ sync_status # "none"))
         => all_rows # <<>>

\* C2 witness: every task failed or returned nothing, and the run is over with
\* nothing invoked.
C2_Witness ==
    /\ phase = "main" /\ pc = "done"
    /\ all_rows = <<>>
    /\ calls = <<>>
    /\ \E i, j, k \in Tasks :
         /\ taskOutcome[i] = "error" /\ taskOutcome[j] = "empty"
         /\ taskOutcome[k] = "ok"

\* C3 as stated: no rows are in the flat collection until every scheduled task
\* has completed.
C3_NoRowsBeforeAllDone ==
    (phase = "main" /\ all_rows # <<>>) => \A i \in Tasks : taskState[i] = "done"

\* C3 amended: results are taken in submission order, an instrument's rows are
\* added only after its own task (and every earlier one) has completed, the
\* collection is tested and handed on only after every task has completed,
\* and at most max_workers tasks run at once.
C3_JoinInSubmissionOrder ==
    phase = "main" =>
        /\ Cardinality(Running) <= MaxWorkers
        /\ \A i \in Tasks : i < joinIdx => taskState[i] = "done"
        /\ \A i \in Tasks :
             RowsOfCode(all_rows, SECTOR_ETFS[i]) # {} => i < joinIdx
        /\ all_rows = Flatten(joinIdx - 1)
        /\ PastJoin => \A i \in Tasks : taskState[i] = "done"
        /\ calls # <<>> => \A i \in Tasks : taskState[i] = "done"

\* C3 witness: rows of the first instrument are already in the collection
\* while max_workers other tasks are still running.
C3_Witness ==
    /\ phase = "main" /\ pc = "join"
    /\ all_rows # <<>>
    /\ Cardinality(Running) = MaxWorkers

(***************************************************************************)
(* process_data_for_chart and generate_html_content on bounded inputs      *)
(***************************************************************************)
\* Distance from a classification threshold covered by the value grids.
GridSlack == 1

RsiGrid == { 0, 500, 1000 }
             \cup { 300 + d : d \in (0 - GridSlack)..GridSlack }
             \cup { 700 + d : d \in (0 - GridSlack)..GridSlack }

BbGrid == { 0 - 500, 50 }
            \cup { 0 + d : d \in (0 - GridSlack)..GridSlack }
            \cup { 100 + d : d \in (0 - GridSlack)..GridSlack }

\* One instrument, every (RSI, %B) of the grids.
ClassifyInputs ==
    { << MakeRow("XLC", 1, 10000, r, b) >> : r \in RsiGrid, b \in BbGrid }

\* One row per instrument for up to MaxRankCodes instruments, each absent or
\* with an RSI and a %B on either side of the thresholds.
MaxRankCodes == 4

RankOptions ==
    { [ present |-> FALSE, rsi |-> 0, bb |-> 0 ] }
    \cup { [ present |-> TRUE, rsi |-> r, bb |-> b ] :
             r \in { 650, 800, 950 }, b \in { 50, 120 } }

RankInputs ==
    { LET here == { i \in 1..MaxRankCodes : f[i].present }
      IN  [ p \in 1..Cardinality(here) |->
              LET i == CHOOSE k \in here : Cardinality({ j \in here : j <= k }) = p
              IN  MakeRow(SECTOR_ETFS[i], 1, 10000 + 100 * i, f[i].rsi, f[i].bb) ]
      : f \in [ 1..MaxRankCodes -> RankOptions ] }

\* Lists of up to MaxListRows rows in any order, duplicates of (date, code)
\* included, over two known and two unknown codes; a row's close tells its
\* position in the list.
MaxListRows == 3

ListCodes == { "XLY", "XLC", "ZZB", "ZZA" }

ListDates == { 1, 2 }

ListInputs ==
    UNION { { [ i \in 1..n |-> MakeRow(cs[i], ds[i], 1000 + 100 * i, 500, 50) ]
              : cs \in [ 1..n -> ListCodes ], ds \in [ 1..n -> ListDates ] }
            : n \in 1..MaxListRows }

\* Two instruments over the dates 1..MaxDate, each (instrument, date) absent
\* or with one of two closes.
MaxDate == 3

NormCodes == << "XLC", "XLY" >>

CloseOptions == { 0, 300, 700 }     \* 0: no row at that date

NormInputs ==
    { LET cells == { c \in (1..Len(NormCodes)) \X (1..MaxDate) : g[c] # 0 }
          key(c) == c[1] * (MaxDate + 1) + c[2]
      IN  [ p \in 1..Cardinality(cells) |->
              LET c == CHOOSE x \in cells :
                          Cardinality({ y \in cells : key(y) <= key(x) }) = p
              IN  MakeRow(NormCodes[c[1]], c[2], g[c], 500, 50) ]
      : g \in [ (1..Len(NormCodes)) \X (1..MaxDate) -> CloseOptions ] }

AggInputs ==
    (ClassifyInputs \cup RankInputs \cup ListInputs \cup NormInputs) \ { <<>> }

InitAgg ==
    /\ phase = "agg"
    /\ pc = "process"
    /\ nsub = 0
    /\ joinIdx = 1
    /\ taskState = <<>>
    /\ taskExc = <<>>
    /\ taskResult = <<>>
    /\ taskOutcome = <<>>
    /\ all_rows \in AggInputs
    /\ calls = <<>>
    /\ df = <<>>
    /\ latest_df = <<>>
    /\ normalized_df = EmptyNorm
    /\ chart_datasets = <<>>
    /\ overheated_top3 = <<>>
    /\ html_content = NoHtml
    /\ sync_status = "none"
    /\ hist = <<>>
    /\ ind = <<>>
    /\ results = <<>>

NextAgg == Process \/ Render

SpecAgg == InitAgg /\ [][NextAgg]_vars

(***************************************************************************)
(* get_sector_data on bounded histories                                    *)
(***************************************************************************)
\* How far around each window length the history lengths reach.
LenSlack == 2

HistLengths ==
    { n \in { w + d : w \in { 0, RsiWindow, BbWindow, WinLong, WinLong + TailLimit },
                       d \in (0 - LenSlack)..LenSlack } : n >= 0 }

ClosePatterns == { "flat", "rise", "fall", "zigzag", "stall" }

VolumePatterns == { "const", "zero", "ramp" }

\* Trading days: five a week, so dates have gaps.
DateOf(i) == i + 2 * ((i - 1) \div 5)

\* "stall": a zigzag that stays flat over the bars 100..130.
CloseOf(pattern, i) ==
    IF pattern = "flat" THEN 10000
    ELSE IF pattern = "rise" THEN 10000 + i
    ELSE IF pattern = "fall" THEN 20000 - i
    ELSE IF pattern = "zigzag" THEN 10000 + (i % 2)
    ELSE IF i >= 100 /\ i <= 130 THEN 10000 ELSE 10000 + (i % 2)

VolumeOf(pattern, i) ==
    IF pattern = "const" THEN 1000
    ELSE IF pattern = "zero" THEN 0
    ELSE 1000 + i

History(n, cp, vp) ==
    [ i \in 1..n |->
        [ date |-> DateOf(i), Close |-> CloseOf(cp, i), Volume |-> VolumeOf(vp, i) ] ]

InitInd ==
    /\ phase = "ind"
    /\ pc = "fetch"
    /\ nsub = 0
    /\ joinIdx = 1
    /\ taskState = <<>>
    /\ taskExc = <<>>
    /\ taskResult = <<>>
    /\ taskOutcome = <<>>
    /\ all_rows = <<>>
    /\ calls = <<>>
    /\ df = <<>>
    /\ latest_df = <<>>
    /\ normalized_df = EmptyNorm
    /\ chart_datasets = <<>>
    /\ overheated_top3 = <<>>
    /\ html_content = NoHtml
    /\ sync_status = "none"
    /\ \E n \in HistLengths, cp \in ClosePatterns, vp \in VolumePatterns :
         hist = History(n, cp, vp)
    /\ ind = <<>>
    /\ results = <<>>

\* get_sector_data: if hist.empty: return []
ReturnEmpty ==
    /\ phase = "ind" /\ pc = "fetch"
    /\ hist = <<>>
    /\ results' = <<>>
    /\ pc' = "returned"
    /\ UNCHANGED <<phase, all_rows, calls, html_content, sync_status, hist, ind>>
    /\ UNCHANGED mainVars /\ UNCHANGED aggVars

\* get_sector_data: df = calculate_technical_indicators(hist)
Calculate ==
    /\ phase = "ind" /\ pc = "fetch"
    /\ hist # <<>>
    /\ ind' = CalculateTechnicalIndicators(hist)
    /\ pc' = "calculated"
    /\ UNCHANGED <<phase, all_rows, calls, html_content, sync_status, hist, results>>
    /\ UNCHANGED mainVars /\ UNCHANGED aggVars

\* get_sector_data: df.dropna().tail(300), then make_row for every row.
EmitRows ==
    /\ phase = "ind" /\ pc = "calculated"
    /\ results' = MakeRows("XLK", TailRows(Dropna(ind)))
    /\ pc' = "returned"
    /\ UNCHANGED <<phase, all_rows, calls, html_content, sync_status, hist, ind>>
    /\ UNCHANGED mainVars /\ UNCHANGED aggVars

NextInd == ReturnEmpty \/ Calculate \/ EmitRows

SpecInd == InitInd /\ [][NextInd]_vars

\* The bar of the history with a given date.
BarAt(date) == CHOOSE i \in 1..Len(hist) : hist[i].date = date

\* C10: a row is emitted for a bar only if every indicator is defined there;
\* none for the first 74 bars, none at all for fewer than 75 bars; the rows are
\* the most recent 300 (at most) of the bars with every indicator defined, in
\* strictly increasing date order.
C10_RowsOnlyWhereDefined ==
    (phase = "ind" /\ pc = "returned" /\ hist # <<>>) =>
        /\ \A k \in 1..Len(results) :
             /\ \E i \in 1..Len(hist) : hist[i].date = results[k].date
             /\ BarAt(results[k].date) >= 75
             /\ NoNaN(ind[BarAt(results[k].date)])
             /\ \E j \in (BarAt(results[k].date) - 13)..BarAt(results[k].date) :
                  hist[j].Close # hist[j-1].Close
        /\ Len(hist) < 75 => results = <<>>
        /\ Len(results) <= 300
        /\ \A k \in 1..(Len(results) - 1) : results[k].date < results[k+1].date
        /\ \A i \in 1..Len(ind) :
             NoNaN(ind[i]) =>
                 \/ \E k \in 1..Len(results) : results[k].date = hist[i].date
                 \/ (Len(results) = 300 /\ hist[i].date < results[1].date)

\* C10 witness: more than 375 bars, 300 rows returned, the oldest defined bars
\* cut off.
C10_Witness ==
    /\ phase = "ind" /\ pc = "returned"
    /\ Len(hist) > 375
    /\ Len(results) = 300
    /\ NoNaN(ind[75])
    /\ results[1].date > hist[75].date
    /\ results[300].date = hist[Len(hist)].date

\* A second case of C10: bars past the 75th are dropped because the RSI is
\* undefined there (fourteen unchanged closes).
C10_WitnessRsiDrop ==
    /\ phase = "ind" /\ pc = "returned"
    /\ Len(hist) > 130
    /\ ind[120].rsi = NaN /\ ind[120].diff_long # NaN
    /\ results # <<>>
    /\ \A k \in 1..Len(results) : results[k].date # hist[120].date

(***************************************************************************)
(* Properties of the Aggregator and the classification (under SpecAgg)     *)
(***************************************************************************)
Processed == phase = "agg" /\ pc \in { "render", "sync" }
Rendered  == phase = "agg" /\ pc = "sync"

Min(a, b) == IF a < b THEN a ELSE b

\* The classification as the specification words it.
Hot(rsi, bb)  == rsi >= 700 \/ bb > 100
Cold(rsi, bb) == rsi <= 300 \/ bb < 0

\* Position of the snapshot row of a display name.
SnapshotPos(name) == CHOOSE i \in 1..Len(latest_df) : latest_df[i].name = name

\* C4: every card's status is one of three outcomes, OVERHEATED iff rsi >= 70
\* or %B > 1.0, OVERSOLD iff not OVERHEATED and (rsi <= 30 or %B < 0), NORMAL
\* otherwise; and the instruments the ranking loop took as overheated are
\* exactly those the panel shows as OVERHEATED (up to the cut to three).
C4_ClassifyThreeOutcomes ==
    Rendered =>
        /\ Len(html_content.cards) = Len(latest_df)
        /\ \A i \in 1..Len(latest_df) :
             LET r  == latest_df[i].rsi
                 b  == latest_df[i].bb
                 st == html_content.cards[i].status
             IN  /\ st \in { "OVERHEATED", "OVERSOLD", "NORMAL" }
                 /\ (st = "OVERHEATED") <=> Hot(r, b)
                 /\ (st = "OVERSOLD") <=> (~ Hot(r, b) /\ Cold(r, b))
                 /\ (st = "NORMAL") <=> (~ Hot(r, b) /\ ~ Cold(r, b))
        /\ LET hotCards == { i \in 1..Len(latest_df) :
                               html_content.cards[i].status = "OVERHEATED" }
           IN  /\ Len(overheated_top3) = Min(TopN, Cardinality(hotCards))
               /\ \A k \in 1..Len(overheated_top3) :
                    \E i \in hotCards :
                        html_content.cards[i].sector = overheated_top3[k].sector

\* C4 witness: a rendered card where both conditions hold (rsi >= 70 and
\* %B < 0) and OVERHEATED won, next to the ranking having taken it.
C4_Witness ==
    /\ Rendered
    /\ \E i \in 1..Len(latest_df) :
         /\ latest_df[i].rsi = 700 /\ latest_df[i].bb < 0
         /\ html_content.cards[i].status = "OVERHEATED"
         /\ \E k \in 1..Len(overheated_top3) :
              overheated_top3[k].sector = latest_df[i].name

\* The snapshot positions of the rows classified OVERHEATED.
HotRows == { i \in 1..Len(latest_df) : Hot(latest_df[i].rsi, latest_df[i].bb) }

\* Row i of the snapshot ranks before row j: higher RSI, or equal RSI and
\* earlier in the snapshot.
RanksBefore(i, j) ==
    \/ latest_df[i].rsi > latest_df[j].rsi
    \/ (latest_df[i].rsi = latest_df[j].rsi /\ i < j)

\* C5: the shortlist holds only OVERHEATED snapshot instruments, ordered by RSI
\* descending with ties in snapshot order, and is exactly the first
\* min(3, candidates) of that ordering.
C5_ShortlistStableTop3 ==
    Processed =>
        LET top == overheated_top3
            pos == [ k \in 1..Len(top) |-> SnapshotPos(top[k].sector) ]
        IN  /\ Len(top) = Min(3, Cardinality(HotRows))
            /\ \A k \in 1..Len(top) :
                 /\ \E i \in 1..Len(latest_df) : latest_df[i].name = top[k].sector
                 /\ pos[k] \in HotRows
                 /\ top[k].rsi = latest_df[pos[k]].rsi
            /\ \A k, m \in 1..Len(top) : k < m => RanksBefore(pos[k], pos[m])
            /\ \A i \in HotRows :
                 (\A k \in 1..Len(top) : pos[k] # i) =>
                     \A k \in 1..Len(top) : RanksBefore(pos[k], i)

\* C5 witness: four candidates, the first and third of the snapshot tied on the
\* highest RSI and the second lower: the shortlist is [A, C, B].
C5_Witness ==
    /\ Processed
    /\ Cardinality(HotRows) = 4
    /\ HotRows = 1..4
    /\ latest_df[1].rsi = 950 /\ latest_df[2].rsi = 800 /\ latest_df[3].rsi = 950
    /\ latest_df[4].rsi = 650
    /\ Len(overheated_top3) = 3
    /\ overheated_top3[1].sector = latest_df[1].name
    /\ overheated_top3[2].sector = latest_df[3].name
    /\ overheated_top3[3].sector = latest_df[2].name

\* The codes of the input and the earliest date of the input.
InputCodes == { all_rows[i].code : i \in 1..Len(all_rows) }
InputDates == { all_rows[i].date : i \in 1..Len(all_rows) }
EarliestDate == CHOOSE d \in InputDates : \A e \in InputDates : d <= e

Known(code) == \E i \in 1..Len(SECTOR_ETFS) : SECTOR_ETFS[i] = code

\* Position in the merged dataset of a row.
DfPos(row) == CHOOSE i \in 1..Len(df) : df[i] = row

C7_MissingBasisOmitted ==
    Processed =>
        \A i \in 1..Len(df) :
            (~ \E k \in 1..Len(df) :
                 df[k].name = df[i].name /\ df[k].date = EarliestDate)
            => \A n \in 1..Len(chart_datasets) : chart_datasets[n].label # df[i].name

\* The chart series of a display name.
SeriesOfName(name) ==
    chart_datasets[CHOOSE n \in 1..Len(chart_datasets) : chart_datasets[n].label = name]

\* C8: the first label is the earliest date of the input; every instrument with
\* a row at that date has exactly 100.00 there; each later value of such an
\* instrument is close(date) / close(earliest date) x 100 to two decimals.
C8_BasisIsHundred ==
    Processed =>
        /\ normalized_df.index # <<>>
        /\ normalized_df.index[1] = EarliestDate
        /\ \A i \in 1..Len(normalized_df.index) :
             normalized_df.index[i] \in InputDates
        /\ \A i \in 1..Len(all_rows) :
             all_rows[i].date = EarliestDate =>
                 /\ \E n \in 1..Len(chart_datasets) :
                      chart_datasets[n].label = all_rows[i].name
                 /\ SeriesOfName(all_rows[i].name).data[1] = << 10000 >>
                 /\ normalized_df.data[all_rows[i].name][1] = << 10000 >>
        /\ \A i, b \in 1..Len(df) :
             (df[b].name = df[i].name /\ df[b].date = EarliestDate) =>
                 \E k \in 1..Len(normalized_df.index) :
                     /\ normalized_df.index[k] = df[i].date
                     /\ LET cell == normalized_df.data[df[i].name][k]
                            err  == cell[1] * df[b].close - df[i].close * 10000
                        IN  /\ cell # NaN
                            /\ 2 * err <= df[b].close
                            /\ 0 - 2 * err <= df[b].close

\* C8 witness: two instruments present at the earliest date with different
\* closes, both at 100.00 there, and a later value that is not 100.00.
C8_Witness ==
    /\ Processed
    /\ Len(normalized_df.index) >= 2
    /\ \E i, j \in 1..Len(df) :
         /\ df[i].date = EarliestDate /\ df[j].date = EarliestDate
         /\ df[i].name # df[j].name /\ df[i].close # df[j].close
         /\ normalized_df.data[df[i].name][1] = << 10000 >>
         /\ normalized_df.data[df[j].name][1] = << 10000 >>
         /\ normalized_df.data[df[i].name][2] = << 23333 >>

\* The sort key of the merge step.
MergeKeyLess(a, b) ==
    \/ a.date < b.date
    \/ (a.date = b.date /\ CodeRank(a.code) < CodeRank(b.code))

\* C9: the merged dataset has at most one row per (date, code), is sorted by
\* (date, code), holds for every (date, code) of the input the last input row
\* with it, and merging it again changes nothing.
C9_MergeIdempotent ==
    Processed =>
        /\ \A i, j \in 1..Len(df) : i < j => MergeKeyLess(df[i], df[j])
        /\ \A i \in 1..Len(all_rows) :
             \E k \in 1..Len(df) :
                 /\ df[k].date = all_rows[i].date /\ df[k].code = all_rows[i].code
                 /\ (\A j \in (i+1)..Len(all_rows) :
                        ~ (all_rows[j].date = all_rows[i].date
                           /\ all_rows[j].code = all_rows[i].code))
                    => df[k] = all_rows[i]
        /\ \A k \in 1..Len(df) : \E i \in 1..Len(all_rows) : all_rows[i] = df[k]
        /\ MergeStep(df) = df

\* C9 witness: an unsorted input with a duplicated (date, code) whose two rows
\* differ, merged to fewer rows.
C9_Witness ==
    /\ Processed
    /\ Len(df) < Len(all_rows)
    /\ Len(df) >= 2
    /\ \E i, j \in 1..Len(all_rows) :
         /\ i < j
         /\ all_rows[i].date = all_rows[j].date /\ all_rows[i].code = all_rows[j].code
         /\ all_rows[i].close # all_rows[j].close
    /\ \E i \in 1..(Len(all_rows) - 1) : MergeKeyLess(all_rows[i+1], all_rows[i])

====
